---- MODULE Spec2Model ----
(***************************************************************************)
(* The request rate limiter of next-api (src/route-wrappers/withRateLimit) *)
(* together with the collaborators it calls: getRequestIp, the timers of   *)
(* the JavaScript runtime, the `next` handler and `onQuotaReached`.        *)
(*                                                                         *)
(* A JavaScript string is a tuple of pieces, a piece being one character   *)
(* or a run of characters the source never looks into (a header name, a    *)
(* host), so that the string operations of the source (replace, split, at, *)
(* join, toString) are computed rather than assumed.  A nullable value is  *)
(* <<>> (null or undefined) or <<v>>.                                      *)
(***************************************************************************)
EXTENDS Integers, Sequences, FiniteSets, TLC

VARIABLES
    list,       \* the module's Map<string, number>: a function on the keys present
    timeout,    \* the module's timer handle: <<>> (null) or <<handle>>
    timers,     \* the runtime's pending timers: records [id, requestIp, ms]
    calls,      \* the invocations of withRateLimit, per slot: where each stands
    spy,        \* setTimeout calls minus clearTimeout calls, as the test's spies count
    run,        \* per client: the calls counted since its entry was last absent
    workload,   \* per client: the max and inS its callers always pass, if fixed
    admitted,   \* per client: the ages (s) of its admitted calls still in the window
    created,    \* per client: the age (s) of the call that created its entry, if any
    lastCall,   \* per client: the age (s) of its latest counted call, while it has an entry
    alone,      \* per client: the list and the timer had no other client ever called
    CorsOptions,\* the static NextResponse.CorsOptions: <<>> (undefined) or <<options>>
    ALLOWED_API_ORIGINS, \* of process.env: <<>> (not set) or <<string>>
    incoming,   \* the headers of a request handed to getRequestIp on its own
    ip,         \* what that call of getRequestIp resolved to: <<>> until it has
    body,       \* a Request or Response body: its text (<<>>: no body) and bodyUsed
    reads,      \* the calls of readJsonBody on it so far: [clone, threw, value]
    responseProps, \* the NextResponseProps of a NextResponse constructed on its own
    constructed,\* that NextResponse: <<>> until it is constructed
    handlers,   \* the route handlers that use NextResponse: what each armed and built
    armedBy     \* the handler whose call of NextResponse.cors() set CorsOptions, if any

\* the variables of the direct calls of getRequestIp, and of readJsonBody
requestVars == <<incoming, ip>>
bodyVars == <<body, reads>>
responseVars == <<responseProps, constructed, handlers, armedBy>>

\* the variables withRateLimit has no part in
others == <<incoming, ip, body, reads, responseProps, constructed, handlers, armedBy>>

\* the variables of withRateLimit and of the NextResponse it builds
rateLimitVars == <<list, timeout, timers, calls, spy, run, workload, admitted, created, lastCall, alone, CorsOptions,
                   ALLOWED_API_ORIGINS>>

vars == <<list, timeout, timers, calls, spy, run, workload, admitted, created, lastCall, alone, CorsOptions,
          ALLOWED_API_ORIGINS, incoming, ip, body, reads, responseProps, constructed,
          handlers, armedBy>>

----------------------------------------------------------------------------
(* Bounds of the model *)

\* invocations of withRateLimit that can be in flight together
NumCalls == 2
\* the largest finite `max` a caller passes
MaxMax == 2
\* the largest `inS` (seconds) a caller passes
MaxWindow == 2
\* no call is started for a client whose entry and calls in flight reach this
MaxQuota == 3

Calls == 1..NumCalls
\* route handlers that run at a time
NumHandlers == 2
Handlers == 1..NumHandlers

----------------------------------------------------------------------------
(* JavaScript values *)

None == <<>>
Some(v) == <<v>>
IsSome(o) == o # <<>>
Val(o) == o[1]

Undefined == [t |-> "undefined"]
Infinity == [t |-> "Infinity"]
Num(n) == [t |-> "number", n |-> n]

TruthyDefined(v) == v # Undefined

\* ToBoolean of a number or undefined (NaN does not occur)
Truthy(v) == v # Undefined /\ v # Num(0)

\* String.prototype.replace( /\s/g, '' )
Whitespace == {" ", "\t"}
RemoveWhitespace(s) == SelectSeq(s, LAMBDA ch : ch \notin Whitespace)

\* String.prototype.split( ',' ): the fields between the commas, at least one
RECURSIVE Split(_)
Split(s) ==
    IF \A k \in 1..Len(s) : s[k] # ","
    THEN <<s>>
    ELSE LET k == CHOOSE j \in 1..Len(s) :
                      s[j] = "," /\ \A h \in 1..(j - 1) : s[h] # ","
         IN  <<SubSeq(s, 1, k - 1)>> \o Split(SubSeq(s, k + 1, Len(s)))

AtFirst(a) == a[1]

\* Array.prototype.at( -1 )
AtLast(a) == a[Len(a)]

\* Number.prototype.toString() of a non-negative integer
Digits == <<"0", "1", "2", "3", "4", "5", "6", "7", "8", "9">>
RECURSIVE NumberToString(_)
NumberToString(n) ==
    IF n < 10 THEN <<Digits[n + 1]>>
    ELSE NumberToString(n \div 10) \o <<Digits[(n % 10) + 1]>>

----------------------------------------------------------------------------
(* Requests and getRequestIp *)

\* Headers.get: the value, or null
HeadersGet(headers, name) ==
    IF name \in DOMAIN headers THEN Some(headers[name]) ELSE None

\* header?.replace( /\s/g, '' ).split( ',' ).at( -1 )
LastEntry(header) ==
    IF IsSome(header) THEN Some(AtLast(Split(RemoveWhitespace(Val(header))))) ELSE None

OrElseNullish(a, b) == IF IsSome(a) THEN a ELSE b

\* a || b on nullable strings: the empty string is falsy
OrElse(a, b) == IF IsSome(a) /\ Val(a) # <<>> THEN a ELSE b

getRequestIp(request) ==
    LET forwarded == LastEntry(HeadersGet(request.headers, "X-Forwarded-For"))
        realIp    == LastEntry(HeadersGet(request.headers, "X-Real-Ip"))
    IN  OrElse(forwarded, OrElse(realIp, None))

\* the placeholder of `await getRequestIp( request ) || '::1'`
Localhost == <<":", ":", "1">>

\* The requests callers pass: without address headers, with a blank X-Real-Ip,
\* and forwarded through a proxy ("9, 7").
Requests ==
    { [headers |-> ("Origin" :> <<"o">>)],
      [headers |-> ("X-Real-Ip" :> <<" ">>)],
      [headers |-> ("X-Forwarded-For" :> <<"9", ",", " ", "7">>)] }

ClientOf(request) == Val(OrElse(getRequestIp(request), Some(Localhost)))

ClientIds == { ClientOf(r) : r \in Requests }

MaxArgs == {Undefined, Infinity} \cup { Num(n) : n \in 0..MaxMax }
InSArgs == {Undefined} \cup { Num(n) : n \in 0..MaxWindow }

----------------------------------------------------------------------------------------------------------------------------------------
(* NextResponse: its static members and the CORS headers it gives a response.
   A policy (Api.CORS.Policy) is a record of nullable fields; an allowed origin is
   a string or an array of strings. *)

NoPolicy ==
    [ t |-> "policy", requestOrigin |-> None, origin |-> None, methods |-> None,
      headers |-> None, exposedHeaders |-> None, credentials |-> None ]

\* `cors: true`
True == [t |-> "true"]

StringOrigin(s) == [t |-> "string", v |-> s]
ArrayOrigin(a) == [t |-> "array", entries |-> a]

\* static CorsAllowedMethods
CorsAllowedMethods == << <<"GET">>, <<"POST">>, <<"PUT">>, <<"PATCH">>, <<"DELETE">>, <<"OPTIONS">>, <<"HEAD">> >>

\* static CorsAllowedHeaders
CorsAllowedHeaders ==
    << <<"Accept">>, <<"Accept-Version">>, <<"Authorization">>, <<"Content-Length">>, <<"Content-MD5">>, <<"Content-Type">>, <<"Date">>, <<"X-Api-Key">>, <<"X-Api-Version">>, <<"X-CSRF-Token">>, <<"X-Locale">>, <<"X-Requested-With">> >>

\* static CorsExposedHeaders
CorsExposedHeaders == << <<"Connection">>, <<"Retry-After">>, <<"Keep-Alive">>, <<"Date">> >>

\* Array.prototype.join( separator )
RECURSIVE Join(_, _)
Join(a, separator) ==
    IF a = <<>> THEN <<>>
    ELSE IF Len(a) = 1 THEN a[1]
    ELSE a[1] \o separator \o Join(Tail(a), separator)

\* removeTrailingSlash of @alessiofrittoli/url-utils
RECURSIVE removeTrailingSlash(_)
removeTrailingSlash(s) ==
    IF s # <<>> /\ s[Len(s)] = "/"
    THEN removeTrailingSlash(SubSeq(s, 1, Len(s) - 1)) ELSE s

\* String.prototype.includes and Array.prototype.includes
Includes(origin, s) ==
    IF origin.t = "array"
    THEN \E k \in 1..Len(origin.entries) : origin.entries[k] = s
    ELSE \E k \in 1..(Len(origin.v) + 1) :
            k + Len(s) - 1 <= Len(origin.v) /\ SubSeq(origin.v, k, k + Len(s) - 1) = s

\* .replace( /\s/g, '' ).split( ',' ).filter( Boolean ).map( removeTrailingSlash )
OriginList(s) ==
    LET fields == SelectSeq(Split(RemoveWhitespace(s)), LAMBDA f : f # <<>>)
    IN  [k \in 1..Len(fields) |-> removeTrailingSlash(fields[k])]

WildCard == <<"*">>

\* allowedOrigin.toString()
OriginToString(origin) ==
    IF origin.t = "array" THEN Join(origin.entries, <<",">>) ELSE origin.v

\* Boolean.prototype.toString()
BooleanToString(b) == IF b THEN <<"true">> ELSE <<"false">>

\* Headers.prototype.set
HeadersSet(headers, name, value) ==
    [ n \in DOMAIN headers \cup {name} |-> IF n = name THEN value ELSE headers[n] ]

\* the allowed origin of lines 239-259, given ALLOWED_API_ORIGINS of process.env
AllowedOrigin(options, env) ==
    LET requestOrigin == options.requestOrigin
        configured    == IF IsSome(options.origin)
                            /\ Val(options.origin) # StringOrigin(<<>>)
                         THEN Val(options.origin)
                         ELSE IF IsSome(env) /\ Val(env) # <<>>
                         THEN StringOrigin(Val(env))
                         ELSE StringOrigin(WildCard)
        allowedOrigin == IF configured.t = "string" /\ configured # StringOrigin(WildCard)
                         THEN ArrayOrigin(OriginList(configured.v))
                         ELSE configured
    IN  IF /\ IsSome(requestOrigin) /\ Val(requestOrigin) # <<>>
           /\ \/ Includes(allowedOrigin, removeTrailingSlash(Val(requestOrigin)))
              \/ allowedOrigin = StringOrigin(WildCard)
        THEN StringOrigin(Val(requestOrigin))
        ELSE allowedOrigin

\* static CorsHeaders( { options, headers } )
CorsHeaders(options, headers, env) ==
    LET allowedMethods == IF IsSome(options.methods)
                          THEN Val(options.methods) ELSE CorsAllowedMethods
        allowdHeaders  == CorsAllowedHeaders
                          \o (IF IsSome(options.headers) THEN Val(options.headers) ELSE <<>>)
        exposeHeaders  == CorsExposedHeaders
                          \o (IF IsSome(options.exposedHeaders)
                              THEN Val(options.exposedHeaders) ELSE <<>>)
        h1 == HeadersSet(headers, "Access-Control-Allow-Origin",
                         OriginToString(AllowedOrigin(options, env)))
        h2 == IF IsSome(options.credentials)
              THEN HeadersSet(h1, "Access-Control-Allow-Credentials",
                              BooleanToString(Val(options.credentials)))
              ELSE h1
        h3 == IF Len(allowdHeaders) > 0
              THEN HeadersSet(h2, "Access-Control-Allow-Headers",
                              Join(allowdHeaders, <<",", " ">>))
              ELSE h2
        h4 == IF Len(exposeHeaders) > 0
              THEN HeadersSet(h3, "Access-Control-Expose-Headers",
                              Join(exposeHeaders, <<",", " ">>))
              ELSE h3
    IN  IF Len(allowedMethods) > 0
        THEN HeadersSet(h4, "Access-Control-Allow-Methods",
                        Join(allowedMethods, <<",", " ">>))
        ELSE h4

\* static cors( request, cors ): the value it assigns to CorsOptions
cors(request, policy) ==
    LET origin        == IF IsSome(request)
                         THEN HeadersGet(Val(request).headers, "Origin") ELSE None
        requestOrigin == IF IsSome(origin) /\ Val(origin) # <<>> THEN origin ELSE None
    IN  Some([(IF IsSome(policy) THEN Val(policy) ELSE NoPolicy)
                 EXCEPT !.requestOrigin = requestOrigin])

\* a ResponseInit left undefined: the status is 200 and there are no headers
DefaultStatus == 200
InitOrDefault(init) ==
    IF IsSome(init) THEN Val(init) ELSE [status |-> DefaultStatus, headers |-> <<>>]

CorsInitKeep(options, init, env) ==
    IF ~IsSome(options)
    THEN [init |-> InitOrDefault(init), CorsOptions |-> options]
    ELSE [init |-> [InitOrDefault(init) EXCEPT
                        !.headers = CorsHeaders(Val(options), @, env)],
          CorsOptions |-> options]

\* static CorsInit( init ): the init it returns and the CorsOptions it leaves
CorsInit(options, init, env) ==
    IF ~IsSome(options)
    THEN [init |-> InitOrDefault(init), CorsOptions |-> options]
    ELSE [init |-> [InitOrDefault(init) EXCEPT
                        !.headers = CorsHeaders(Val(options), @, env)],
          CorsOptions |-> None]

\* new NextResponse( { body: null, init, cors, request } ), constructed while the
\* static CorsOptions is `options`: the response and the CorsOptions it leaves
NextResponse(options, props, env) ==
    LET set == IF props.cors # Undefined
               THEN cors(props.request,
                         IF props.cors # True THEN Some(props.cors) ELSE None)
               ELSE options
        r   == CorsInit(set, props.init, env)
    IN  [ response    |-> [ type |-> "NextResponse", status |-> r.init.status,
                            headers |-> r.init.headers ],
          CorsOptions |-> r.CorsOptions ]

----------------
(* The runtime's timers (setTimeout, clearTimeout), spied on as in the tests.
   A runtime R is [timers: the pending timers, spy: calls of setTimeout minus
   calls of clearTimeout]. *)

\* the spies' difference is followed up to this value
SpyCap == 2
Tally(n) == IF n > SpyCap THEN SpyCap ELSE IF n < -1 THEN -1 ELSE n

\* a handle no pending timer and no handle still held carries
FreshHandle(ts, held) ==
    CHOOSE h \in 1..(Cardinality(ts) + 2) :
        /\ \A t \in ts : t.id # h
        /\ held # Some(h)
        /\ \A g \in 1..(h - 1) : (\E t \in ts : t.id = g) \/ held = Some(g)

clearTimeoutKeep(R, handle) == [ timers |-> R.timers, spy |-> Tally(R.spy - 1) ]

\* clearTimeout( handle ): the timer is no longer pending (a no-op once it ran)
clearTimeout(R, handle) ==
    [ timers |-> { t \in R.timers : t.id # handle }, spy |-> Tally(R.spy - 1) ]

setTimeoutElsewhere(R, handle, requestIp, ms) ==
    [ timers |-> R.timers \cup { [id |-> handle, requestIp |-> <<"0">>, ms |-> ms] },
      spy    |-> Tally(R.spy + 1) ]

\* setTimeout( () => list.delete( requestIp ), ms ) returning `handle`
setTimeout(R, handle, requestIp, ms) ==
    [ timers |-> R.timers \cup { [id |-> handle, requestIp |-> requestIp, ms |-> ms] },
      spy    |-> Tally(R.spy + 1) ]

----------------------------------------------------------------------------
(* withRateLimit, statement by statement *)

\* Map.get( key ) || 0
MapGetOrZero(l, key) == IF key \in DOMAIN l /\ l[key] # 0 THEN l[key] ELSE 0

MapSetAll(l, key, value) == [k \in DOMAIN l \cup {key} |-> value]

MapSetAlone(l, key, value) == [k \in {key} |-> value]

\* Map.set( key, value )
MapSet(l, key, value) == [k \in DOMAIN l \cup {key} |-> IF k = key THEN value ELSE l[k]]

\* Map.delete( key )
MapDelete(l, key) == [k \in DOMAIN l \ {key} |-> l[k]]

UnlimitedNoZero(max) == max = Undefined \/ max = Infinity

UnlimitedNoInfinity(max) == ~Truthy(max)

\* if ( ! max || max === Infinity ) return next( request )
Unlimited(max) == ~Truthy(max) \/ max = Infinity

CancelTimeoutSkip(R, handle) == R

\* if ( timeout ) { clearTimeout( timeout ); timeout = null }
CancelTimeout(R, handle) ==
    IF IsSome(handle) THEN clearTimeout(R, Val(handle)) ELSE R

MsPerSecond == 1000

TimeoutDelayShort(inS) == (inS.n - 1) * MsPerSecond

TimeoutDelayRaw(inS) == inS.n

\* the delay of the eviction timer: inS * 1000
TimeoutDelay(inS) == inS.n * MsPerSecond

\* timeout = setTimeout( () => { list.delete( requestIp ) }, inS * 1000 )
ScheduleTimeout(R, handle, requestIp, inS) ==
    setTimeout(R, handle, requestIp, TimeoutDelay(inS))

TimerCallbackKeep(l, requestIp) == l

TimerCallbackClear(l, requestIp) == <<>>

\* the timer's callback: list.delete( requestIp )
TimerCallback(l, requestIp) == MapDelete(l, requestIp)

NextQuotaZero(l, requestIp) == MapGetOrZero(l, requestIp)

NextQuotaStale(l, requestIp) == IF requestIp \in DOMAIN l THEN l[requestIp] ELSE 1

\* const quota = ( list.get( requestIp ) || 0 ) + 1
NextQuota(l, requestIp) == MapGetOrZero(l, requestIp) + 1

WithinQuotaLoose(quota, max) == max = Infinity \/ (max # Undefined /\ quota <= max.n + 1)

WithinQuotaOnce(quota, max) == max = Infinity \/ (max # Undefined /\ quota # max.n + 1)

WithinQuotaStrict(quota, max) == max = Infinity \/ (max # Undefined /\ quota < max.n)

\* if ( quota <= max ) return next( request )
WithinQuota(quota, max) == max = Infinity \/ (max # Undefined /\ quota <= max.n)

TooManyRequests == 429

ResponseInitSwapped(inS, max) ==
    [ status  |-> TooManyRequests,
      headers |-> IF Truthy(inS)
                  THEN ("Retry-After" :> NumberToString(max.n))
                       @@ ("X-Max-Requests" :> NumberToString(inS.n))
                  ELSE <<>> ]

ResponseInitAlways(inS, max) ==
    [ status  |-> TooManyRequests,
      headers |-> ("Retry-After" :> NumberToString(IF Truthy(inS) THEN inS.n ELSE 0))
                  @@ ("X-Max-Requests" :> NumberToString(max.n)) ]

\* const responseInit = { status: 429, headers: inS ? { ... } : undefined }
ResponseInit(inS, max) ==
    [ status  |-> TooManyRequests,
      headers |-> IF Truthy(inS)
                  THEN ("Retry-After" :> NumberToString(inS.n))
                       @@ ("X-Max-Requests" :> NumberToString(max.n))
                  ELSE <<>> ]

\* const corsOptions = cors ? { ...( typeof cors === 'object' ? cors : undefined ),
\*     exposedHeaders: [ ...( cors.exposedHeaders || [] ), 'X-Max-Requests' ] } : undefined
XMaxRequests == <<"X-Max-Requests">>

CorsOptionsOfBare(corsArg) ==
    IF corsArg = Undefined THEN Undefined ELSE IF corsArg = True THEN NoPolicy ELSE corsArg

CorsOptionsOf(corsArg) ==
    IF corsArg = Undefined THEN Undefined
    ELSE LET policy == IF corsArg = True THEN NoPolicy ELSE corsArg
             given  == IF IsSome(policy.exposedHeaders)
                       THEN Val(policy.exposedHeaders) ELSE <<>>
         IN  [policy EXCEPT !.exposedHeaders = Some(given \o <<XMaxRequests>>)]

\* the `cors` argument: absent, true, an empty policy, or the policy of the tests
CustomHeader == <<"X-Custom-Header">>
CorsArgs ==
    { Undefined, True, NoPolicy, [NoPolicy EXCEPT !.exposedHeaders = Some(<<CustomHeader>>)] }

\* what the handler `next` answers to `request`
Ok == 200
NextResult(request) ==
    [ type |-> "Response", status |-> Ok, headers |-> <<>>, request |-> request ]

----------------------------------------------------------------------------
(* State *)

\* A slot holds what an invocation still needs: `request` and `max` while it
\* awaits getRequestIp, the request handed to `next` while that runs, the response
\* init and the arguments handed to onQuotaReached while that runs, and at the end
\* the response returned.
IdleCall ==
    [ pc |-> "idle", request |-> None, max |-> Undefined, responseInit |-> None,
      corsOptions |-> Undefined, nextCalls |-> <<>>, onQuotaCalls |-> <<>>, response |-> None,
      thrown |-> None ]

\* return next( request )
Admission(request) == [IdleCall EXCEPT !.pc = "next", !.nextCalls = <<request>>]

RejectionNoAwait(onQuotaReached, requestIp, props) ==
    [ IdleCall EXCEPT
        !.pc = "done",
        !.onQuotaCalls = IF onQuotaReached
                         THEN <<[requestIp |-> requestIp, list |-> "list"]>> ELSE <<>>,
        !.response = Some(NextResponse(CorsOptions, props, ALLOWED_API_ORIGINS).response) ]

\* if ( onQuotaReached ) { await onQuotaReached( requestIp, list ) }
\* return new NextResponse( { body: null, init: responseInit, cors: corsOptions, request } )
Rejection(onQuotaReached, requestIp, props) ==
    IF onQuotaReached
    THEN [ IdleCall EXCEPT
             !.pc = "onQuotaReached",
             !.request = props.request,
             !.responseInit = props.init,
             !.corsOptions = props.cors,
             !.onQuotaCalls = <<[requestIp |-> requestIp, list |-> "list"]>> ]
    ELSE [ IdleCall EXCEPT
             !.pc = "done",
             !.response = Some(NextResponse(CorsOptions, props, ALLOWED_API_ORIGINS).response) ]

Free == [max |-> None, inS |-> None]
Fixed(m, w) == [max |-> Some(Num(m)), inS |-> Some(Num(w))]

\* Callers pass any arguments; or one client's callers always pass the same max;
\* or every caller passes the same max and the same inS.
Workloads ==
    {[c \in ClientIds |-> Free]}
    \cup { [c \in ClientIds |-> IF c = d THEN [Free EXCEPT !.max = Some(Num(m))] ELSE Free] :
               d \in ClientIds, m \in 1..MaxMax }
    \cup { [c \in ClientIds |-> Fixed(m, w)] : m \in 1..MaxMax, w \in 1..MaxWindow }

Uniform == \A c \in ClientIds : IsSome(workload[c].max) /\ IsSome(workload[c].inS)

\* nothing has been counted, no timer was armed, no call is in flight
RateLimitInit ==
    /\ list = <<>>
    /\ timeout = None
    /\ timers = {}
    /\ calls = [i \in Calls |-> IdleCall]
    /\ spy = 0
    /\ run = [c \in ClientIds |-> 0]
    /\ workload \in Workloads
    /\ admitted = [c \in ClientIds |-> <<>>]
    /\ created = [c \in ClientIds |-> None]
    /\ lastCall = [c \in ClientIds |-> None]
    /\ alone = [c \in ClientIds |-> [list |-> <<>>, ms |-> None]]
    /\ CorsOptions = None

\* process.env sets no ALLOWED_API_ORIGINS
NoEnv == ALLOWED_API_ORIGINS = None

\* getRequestIp has not been called on its own; nor readJsonBody
RequestInit == incoming = <<>> /\ ip = None
BodyInit == body = [text |-> None, used |-> FALSE] /\ reads = <<>>

\* a route handler that has not called NextResponse yet
IdleHandler == [armed |-> None, props |-> None, response |-> None]

NoHandlers == handlers = [h \in Handlers |-> IdleHandler] /\ armedBy = None

NoResponse ==
    /\ responseProps = [init |-> None, cors |-> Undefined, request |-> None]
    /\ constructed = None
    /\ NoHandlers

Init ==
    /\ RateLimitInit
    /\ NoEnv
    /\ RequestInit
    /\ BodyInit
    /\ NoResponse

\* the calls of `client` that have not reached the count yet
Waiting(client) ==
    { i \in Calls : calls[i].pc = "getRequestIp"
                    /\ ClientOf(Val(calls[i].request)) = client }

\* no invocation is in flight: the caller awaited each call (as the tests do)
Awaited == \A i \in Calls : calls[i].pc \in {"idle", "done"}

----------------------------------------------------------------------------
(* Actions.  An argument is drawn where the code first reads it (max at line 43,
   inS at line 47, onQuotaReached at line 77): it cannot change in between. *)

\* withRateLimit( request, next, max, ... ) up to its first await: line 43, then
\* the call of getRequestIp, which reads the request's headers.
Call(i, request, max) ==
    /\ calls[i].pc \in {"idle", "done"}
    /\ \A j \in 1..(i - 1) : calls[j].pc \notin {"idle", "done"}
    /\ IsSome(workload[ClientOf(request)].max)
          => max = Val(workload[ClientOf(request)].max)
    /\ Unlimited(max)
       \/ MapGetOrZero(list, ClientOf(request))
            + Cardinality(Waiting(ClientOf(request))) < MaxQuota
    /\ calls' = [calls EXCEPT ![i] =
            IF Unlimited(max)
            THEN Admission(request)
            ELSE [IdleCall EXCEPT !.pc = "getRequestIp",
                                  !.request = Some(request), !.max = max]]
    /\ UNCHANGED <<list, timeout, timers, spy, run, workload, admitted, created, lastCall, alone, CorsOptions, ALLOWED_API_ORIGINS>>
    /\ UNCHANGED others

\* withRateLimit from the resumption after `await getRequestIp` (line 45) to its
\* next await or return: the timer (47-55), the count (57-58), the decision (60-62),
\* and on rejection the response init and the call of onQuotaReached (64-88).
CountWith(i, inS, corsArg, onQuotaReached) ==
    LET c         == calls[i]
        request   == Val(c.request)
        requestIp == Val(OrElse(getRequestIp(request), Some(Localhost)))
        handle    == FreshHandle(timers, timeout)
        R         == [timers |-> timers, spy |-> spy]
        armed     == ScheduleTimeout(CancelTimeout(R, timeout), handle, requestIp, inS)
        quota     == NextQuota(list, requestIp)
        props     == [ init    |-> Some(ResponseInit(inS, c.max)),
                       cors    |-> CorsOptionsOf(corsArg),
                       request |-> Some(request) ]
    IN  /\ c.pc = "getRequestIp"
        /\ IsSome(workload[requestIp].inS) => inS = Val(workload[requestIp].inS)
        /\ IF Truthy(inS)
           THEN /\ timers' = armed.timers
                /\ spy' = armed.spy
                /\ timeout' = Some(handle)
           ELSE UNCHANGED <<timers, timeout, spy>>
        /\ list' = MapSet(list, requestIp, quota)
        /\ run' = [run EXCEPT ![requestIp] = @ + 1]
        /\ created' = IF Uniform /\ requestIp \notin DOMAIN list
                      THEN [created EXCEPT ![requestIp] = Some(0)]
                      ELSE created
        /\ lastCall' = IF Uniform THEN [lastCall EXCEPT ![requestIp] = Some(0)] ELSE lastCall
        /\ alone' = IF Uniform
                    THEN [alone EXCEPT ![requestIp] =
                            [ list |-> MapSet(@.list, requestIp, NextQuota(@.list, requestIp)),
                              ms   |-> IF Truthy(inS) THEN Some(TimeoutDelay(inS)) ELSE @.ms ]]
                    ELSE alone
        /\ IF WithinQuota(quota, c.max)
           THEN /\ calls' = [calls EXCEPT ![i] = Admission(request)]
                /\ admitted' = IF Uniform
                               THEN [admitted EXCEPT ![requestIp] = Append(@, 0)]
                               ELSE admitted
                /\ UNCHANGED CorsOptions
           ELSE /\ calls' = [calls EXCEPT ![i] = Rejection(onQuotaReached, requestIp, props)]
                /\ CorsOptions' = IF onQuotaReached THEN CorsOptions
                                  ELSE NextResponse(CorsOptions, props, ALLOWED_API_ORIGINS).CorsOptions
                /\ admitted' = admitted
        /\ UNCHANGED <<workload, ALLOWED_API_ORIGINS>>
        /\ UNCHANGED others

\* the same, whatever `cors` the caller passed
Count(i, inS, onQuotaReached) ==
    \E corsArg \in CorsArgs : CountWith(i, inS, corsArg, onQuotaReached)

\* the promise `next( request )` returned settles: withRateLimit returns its result
NextReturns(i) ==
    /\ calls[i].pc = "next"
    /\ calls' = [calls EXCEPT ![i] =
            [IdleCall EXCEPT !.pc = "done",
                             !.response = Some(NextResult(calls[i].nextCalls[1]))]]
    /\ UNCHANGED <<list, timeout, timers, spy, run, workload, admitted, created, lastCall, alone, CorsOptions, ALLOWED_API_ORIGINS>>
    /\ UNCHANGED others

\* `await onQuotaReached( requestIp, list )` settles: lines 81-88
QuotaReachedReturns(i) ==
    /\ calls[i].pc = "onQuotaReached"
    /\ LET props == [ init    |-> calls[i].responseInit,
                      cors    |-> calls[i].corsOptions,
                      request |-> calls[i].request ]
           built == NextResponse(CorsOptions, props, ALLOWED_API_ORIGINS)
       IN  /\ calls' = [calls EXCEPT ![i] =
                   [IdleCall EXCEPT !.pc = "done", !.response = Some(built.response)]]
           /\ CorsOptions' = built.CorsOptions
    /\ UNCHANGED <<list, timeout, timers, spy, run, workload, admitted, created, lastCall, alone, ALLOWED_API_ORIGINS>>
    /\ UNCHANGED others

\* the errors a collaborator (next, onQuotaReached) may throw or reject with
Errors == {"TypeError", "RangeError"}

RejectsGeneric(error) == "Error"

\* withRateLimit has no try/catch: what a collaborator throws is what the promise
\* withRateLimit returned rejects with
Rejects(error) == error

NextThrowsRollback(i, error) ==
    /\ calls[i].pc = "next"
    /\ calls' = [calls EXCEPT ![i] =
            [IdleCall EXCEPT !.pc = "done", !.thrown = Some(Rejects(error))]]
    /\ list' = MapDelete(list, ClientOf(calls[i].nextCalls[1]))
    /\ UNCHANGED <<timeout, timers, spy, run, workload, admitted, created, lastCall, alone, CorsOptions, ALLOWED_API_ORIGINS>>
    /\ UNCHANGED others

\* the promise `next( request )` returned rejects, or next throws: line 43 or 61
NextThrows(i, error) ==
    /\ calls[i].pc = "next"
    /\ calls' = [calls EXCEPT ![i] =
            [IdleCall EXCEPT !.pc = "done", !.thrown = Some(Rejects(error))]]
    /\ UNCHANGED <<list, timeout, timers, spy, run, workload, admitted, created, lastCall, alone, CorsOptions, ALLOWED_API_ORIGINS>>
    /\ UNCHANGED others

\* `await onQuotaReached( requestIp, list )` throws: line 78, nothing runs after it
QuotaReachedThrows(i, error) ==
    /\ calls[i].pc = "onQuotaReached"
    /\ calls' = [calls EXCEPT ![i] =
            [IdleCall EXCEPT !.pc = "done", !.thrown = Some(Rejects(error))]]
    /\ UNCHANGED <<list, timeout, timers, spy, run, workload, admitted, created, lastCall, alone, CorsOptions, ALLOWED_API_ORIGINS>>
    /\ UNCHANGED others

\* an age one second later; ages beyond every window are not told apart
Elapsed(age) == IF age > MaxWindow THEN age ELSE age + 1

\* the callbacks of the timers in `due`, each run once
RECURSIVE RunCallbacks(_, _)
RunCallbacks(l, due) ==
    IF due = {} THEN l
    ELSE LET t == CHOOSE x \in due : TRUE
         IN  RunCallbacks(TimerCallback(l, t.requestIp), due \ {t})

\* One second passes (jest.advanceTimersByTime( 1000 )): the timers that come due
\* run.  The resumption after `await getRequestIp( request )` is a microtask when
\* the request carries its headers, so no time passes while a call waits there.
AdvanceTimers ==
    LET due == { t \in timers : t.ms <= MsPerSecond }
    IN  /\ \A i \in Calls : calls[i].pc # "getRequestIp"
        /\ timers' = { [t EXCEPT !.ms = @ - MsPerSecond] : t \in timers \ due }
        /\ list' = RunCallbacks(list, due)
        /\ run' = [ c \in ClientIds |->
                      IF c \in DOMAIN list /\ c \notin DOMAIN list' THEN 0 ELSE run[c] ]
        /\ admitted' = [ c \in ClientIds |->
                           IF Uniform
                           THEN SelectSeq([k \in 1..Len(admitted[c]) |-> admitted[c][k] + 1],
                                          LAMBDA age : age < Val(workload[c].inS).n)
                           ELSE admitted[c] ]
        /\ created' = [ c \in ClientIds |->
                          IF c \in DOMAIN list' /\ IsSome(created[c])
                          THEN Some(Elapsed(Val(created[c])))
                          ELSE None ]
        /\ lastCall' = [ c \in ClientIds |->
                           IF c \in DOMAIN list' /\ IsSome(lastCall[c])
                           THEN Some(Elapsed(Val(lastCall[c])))
                           ELSE None ]
        /\ alone' = [ c \in ClientIds |->
                        IF ~IsSome(alone[c].ms) THEN alone[c]
                        ELSE IF Val(alone[c].ms) <= MsPerSecond
                        THEN [list |-> TimerCallback(alone[c].list, c), ms |-> None]
                        ELSE [alone[c] EXCEPT !.ms = Some(Val(@) - MsPerSecond)] ]
        /\ UNCHANGED <<timeout, calls, spy, workload, CorsOptions, ALLOWED_API_ORIGINS>>
        /\ UNCHANGED others

\* Callers that await each call before the next one (the tests' callers)
Next ==
    \/ /\ Awaited
       /\ \E i \in Calls, request \in Requests, max \in MaxArgs : Call(i, request, max)
    \/ \E i \in Calls, inS \in InSArgs, onQuotaReached \in BOOLEAN :
            Count(i, inS, onQuotaReached)
    \/ \E i \in Calls : NextReturns(i)
    \/ \E i \in Calls : QuotaReachedReturns(i)
    \/ \E i \in Calls, error \in Errors : NextThrows(i, error)
    \/ \E i \in Calls, error \in Errors : QuotaReachedThrows(i, error)
    \/ AdvanceTimers

Spec == Init /\ [][Next]_vars

\* Callers that do not wait: up to NumCalls invocations in flight.  They pass no
\* `cors` and their collaborators do not fail: neither reads or writes list,
\* timeout or the timers.
ConcurrentNext ==
    \/ \E i \in Calls, request \in Requests, max \in MaxArgs : Call(i, request, max)
    \/ \E i \in Calls, inS \in InSArgs, onQuotaReached \in BOOLEAN :
            CountWith(i, inS, Undefined, onQuotaReached)
    \/ \E i \in Calls : NextReturns(i)
    \/ \E i \in Calls : QuotaReachedReturns(i)
    \/ AdvanceTimers

ConcurrentInit == Init /\ workload = [c \in ClientIds |-> Free]

ConcurrentSpec == ConcurrentInit /\ [][ConcurrentNext]_vars

----------------------------------------------------------------------------
(* Properties *)

\* the step is the count of the invocation in slot i
Counts(i) == calls[i].pc = "getRequestIp" /\ calls'[i].pc # "getRequestIp"

\* the invocation in slot i has rejected the request (in this step, or earlier)
Rejected(call) ==
    \/ call.pc = "onQuotaReached"
    \/ /\ call.pc = "done" /\ call.nextCalls = <<>>
       /\ IsSome(call.response) /\ Val(call.response).type = "NextResponse"

\* the invocation in slot i ended with the failure of a collaborator
Failed(call) == call.pc = "done" /\ IsSome(call.thrown)

\* when `next` settles, withRateLimit settles the same way: with the response next
\* returned or with the error next threw
SettlesAsNext(i) ==
    (calls[i].pc = "next" /\ calls'[i].pc # "next") =>
        /\ calls'[i].pc = "done"
        /\ \/ calls'[i].response = Some(NextResult(calls[i].nextCalls[1]))
           \/ \E error \in Errors : NextThrows(i, error) /\ calls'[i].thrown = Some(error)

\* the response init of a rejection, before or after the await of onQuotaReached
RejectionInit(call) ==
    IF call.pc = "onQuotaReached" THEN Val(call.responseInit)
    ELSE [status |-> Val(call.response).status, headers |-> Val(call.response).headers]

\* C1: for a client without an entry whose callers always pass the same finite
\* positive max, and as long as no timer evicts it, the first max calls each invoke
\* `next` with the request and return its result, and call max + 1 is rejected with
\* status 429 without invoking `next`.
C1_FirstMaxAdmitted ==
    [][\A i \in Calls :
        LET request == Val(calls[i].request)
            client  == ClientOf(request)
            m       == Val(workload[client].max).n
            k       == run[client] + 1
        IN  /\ (Counts(i) /\ IsSome(workload[client].max)) =>
                  /\ k <= m => calls'[i].pc = "next" /\ calls'[i].nextCalls = <<request>>
                  /\ k = m + 1 => /\ Rejected(calls'[i])
                                  /\ calls'[i].nextCalls = <<>>
                                  /\ RejectionInit(calls'[i]).status = 429
            /\ SettlesAsNext(i)
            /\ (calls[i].pc = "onQuotaReached" /\ calls'[i].pc # "onQuotaReached"
                  /\ ~Failed(calls'[i])) =>
                  /\ Rejected(calls'[i])
                  /\ Val(calls'[i].response).status = 429
      ]_vars

\* a client whose callers always pass MaxMax has made MaxMax + 1 calls, the last
\* one answered 429
C1_Witness ==
    \E c \in ClientIds :
        /\ workload[c].max = Some(Num(MaxMax))
        /\ run[c] = MaxMax + 1
        /\ \E i \in Calls : Rejected(calls[i]) /\ calls[i].pc = "done"

\* C2: when every caller passes the same finite positive max and the same truthy
\* inS, each client has at most max admitted calls whose times lie within a span
\* shorter than inS seconds.
C2_QuotaPerWindow ==
    Uniform => \A c \in ClientIds : Len(admitted[c]) <= Val(workload[c].max).n

\* a client has used its whole quota within the window, over more than one second,
\* and has been rejected since
C2_Witness ==
    /\ Uniform
    /\ \E c \in DOMAIN list :
          /\ Len(admitted[c]) = Val(workload[c].max).n
          /\ admitted[c][1] > 0
          /\ list[c] > Val(workload[c].max).n

\* C3: a call whose max is absent or Infinity invokes `next` exactly once, with the
\* request, returns what it returns, and leaves list, timeout and the timers alone.
C3_UnlimitedPassesThrough ==
    [][\A i \in Calls :
        /\ \A request \in Requests, max \in {Undefined, Infinity} :
              Call(i, request, max) =>
                  /\ calls'[i].pc = "next"
                  /\ calls'[i].nextCalls = <<request>>
                  /\ UNCHANGED <<list, timeout, timers>>
        /\ calls[i].pc = "next" =>
              \/ calls'[i] = calls[i]
              \/ SettlesAsNext(i) /\ calls'[i].pc = "done" /\ UNCHANGED <<list, timeout, timers>>
      ]_vars

\* a call has returned the answer of `next` while nothing was ever counted
C3_Witness ==
    /\ list = <<>> /\ timeout = None /\ timers = {}
    /\ \E i \in Calls, r \in Requests :
          calls[i].pc = "done" /\ calls[i].response = Some(NextResult(r))

\* the number a string of decimal digits writes, -1 if it is no such string
DigitOf(ch) == IF \E d \in 0..9 : Digits[d + 1] = ch
               THEN CHOOSE d \in 0..9 : Digits[d + 1] = ch ELSE -1
RECURSIVE DecimalValue(_)
DecimalValue(str) ==
    IF str = <<>> \/ DigitOf(str[Len(str)]) < 0 THEN -1
    ELSE IF Len(str) = 1 THEN DigitOf(str[1])
    ELSE LET high == DecimalValue(SubSeq(str, 1, Len(str) - 1))
         IN  IF high < 0 THEN -1 ELSE high * 10 + DigitOf(str[Len(str)])

\* the await of onQuotaReached changes nothing of the rejection prepared before it
KeepsRejection(i) ==
    (calls[i].pc = "onQuotaReached" /\ calls'[i].pc # "onQuotaReached"
       /\ ~Failed(calls'[i])) =>
        /\ Rejected(calls'[i])
        /\ calls'[i].pc = "done"
        /\ LET init  == Val(calls[i].responseInit)
               built == RejectionInit(calls'[i])
           IN  /\ built.status = init.status
               /\ \A n \in DOMAIN init.headers :
                     n \in DOMAIN built.headers /\ built.headers[n] = init.headers[n]
               /\ \A n \in DOMAIN built.headers \ DOMAIN init.headers :
                     n \notin {"Retry-After", "X-Max-Requests"}

\* C4: a rejection by a call with truthy inS has status 429, Retry-After is that
\* call's inS and X-Max-Requests that call's max, both written as strings.
C4_RejectionHeaders ==
    [][\A i \in Calls :
        /\ \A inS \in InSArgs, onQuotaReached \in BOOLEAN :
              (Count(i, inS, onQuotaReached) /\ Truthy(inS) /\ Rejected(calls'[i])) =>
                  LET init == RejectionInit(calls'[i])
                  IN  /\ init.status = 429
                      /\ {"Retry-After", "X-Max-Requests"} \subseteq DOMAIN init.headers
                      /\ DecimalValue(init.headers["Retry-After"]) = inS.n
                      /\ DecimalValue(init.headers["X-Max-Requests"]) = calls[i].max.n
        /\ KeepsRejection(i)
      ]_vars

\* a call has returned a 429 that carries Retry-After: MaxWindow and, after the
\* await of onQuotaReached, X-Max-Requests: 1
C4_Witness ==
    \E i \in Calls :
        /\ calls[i].pc = "done" /\ Rejected(calls[i])
        /\ Val(calls[i].response).status = 429
        /\ "Retry-After" \in DOMAIN Val(calls[i].response).headers
        /\ DecimalValue(Val(calls[i].response).headers["Retry-After"]) = MaxWindow
        /\ DecimalValue(Val(calls[i].response).headers["X-Max-Requests"]) = 1

\* C5: a call whose inS is 0 or absent still counts, and still rejects with 429 once
\* the count exceeds max, but its rejection carries neither Retry-After nor
\* X-Max-Requests.
C5_NoWindowNoHeaders ==
    [][\A i \in Calls :
        /\ \A inS \in {Undefined, Num(0)}, onQuotaReached \in BOOLEAN :
              Count(i, inS, onQuotaReached) =>
                  LET client == ClientOf(Val(calls[i].request))
                      before == IF client \in DOMAIN list THEN list[client] ELSE 0
                  IN  /\ client \in DOMAIN list' /\ list'[client] = before + 1
                      /\ before + 1 > calls[i].max.n =>
                            /\ Rejected(calls'[i])
                            /\ RejectionInit(calls'[i]).status = 429
                            /\ "Retry-After" \notin DOMAIN RejectionInit(calls'[i]).headers
                            /\ "X-Max-Requests" \notin DOMAIN RejectionInit(calls'[i]).headers
        /\ KeepsRejection(i)
      ]_vars

\* a call has returned a 429 without headers while no timer was ever armed
C5_Witness ==
    /\ timeout = None
    /\ \E i \in Calls :
          /\ calls[i].pc = "done" /\ Rejected(calls[i])
          /\ Val(calls[i].response).status = 429
          /\ DOMAIN Val(calls[i].response).headers = {}

\* C6: onQuotaReached, when given, is invoked once per rejected call, with the
\* client id and the list, after the count has exceeded max and before the response
\* is returned; an admitted or unlimited call never invokes it.
C6_OnQuotaReachedOnce ==
    [][\A i \in Calls :
        /\ \A inS \in InSArgs, onQuotaReached \in BOOLEAN :
              Count(i, inS, onQuotaReached) =>
                  LET client == ClientOf(Val(calls[i].request))
                  IN  IF onQuotaReached /\ list'[client] > calls[i].max.n
                      THEN /\ calls'[i].pc = "onQuotaReached"
                           /\ calls'[i].onQuotaCalls = <<[requestIp |-> client, list |-> "list"]>>
                           /\ calls'[i].response = None
                      ELSE calls'[i].onQuotaCalls = <<>>
        /\ ~Counts(i) => calls'[i].onQuotaCalls \in {calls[i].onQuotaCalls, <<>>}
        /\ calls[i].pc = "onQuotaReached" =>
              \/ calls'[i] = calls[i]
              \/ /\ calls'[i].pc = "done" /\ calls'[i].onQuotaCalls = <<>>
                 /\ IsSome(calls'[i].response) \/ Failed(calls'[i])
      ]_vars

\* onQuotaReached is running for a client whose count is MaxMax + 1
C6_Witness ==
    \E i \in Calls, c \in DOMAIN list :
        /\ calls[i].pc = "onQuotaReached"
        /\ calls[i].onQuotaCalls = <<[requestIp |-> c, list |-> "list"]>>
        /\ calls[i].response = None
        /\ list[c] = MaxMax + 1

----------------------------------------------------------------------------
(* Specifications with the fairness the runtime gives: time passes, and the
   microtask that resumes a call after `await getRequestIp` runs. *)

Fairness ==
    /\ WF_vars(AdvanceTimers)
    /\ WF_vars(\E i \in Calls, inS \in InSArgs, onQuotaReached \in BOOLEAN :
                    Count(i, inS, onQuotaReached))

\* awaited calls with arguments of any kind, under that fairness
FairSpec == ConcurrentInit /\ [][Next]_vars /\ Fairness

\* the handles the runtime hands out while at most one timer is pending: the
\* lowest one that is neither pending nor still held in `timeout`
Handles == {1, 2}

\* a timer with this handle is pending
Pending(ts, handle) == \E t \in ts : t.id = handle

\* the pending timers whose callback deletes the entry of `client`
TimersFor(ts, client) == { t \in ts : t.requestIp = client }

\* C7: a timer armed by a call for client c with truthy inS, unless a later call
\* with truthy inS replaces it before inS seconds have passed, fires and deletes
\* c's entry; the next call for c then counts 1 and is admitted whatever its
\* max >= 1, also when c was being rejected.
C7_TimerEvicts ==
    /\ [][\A t \in timers :
            ~Pending(timers', t.id) =>
                \/ timeout' # timeout
                \/ t.ms <= MsPerSecond /\ t.requestIp \notin DOMAIN list'
         ]_vars
    /\ [][\A i \in Calls :
            LET request == Val(calls[i].request)
                client  == ClientOf(request)
            IN  (Counts(i) /\ client \notin DOMAIN list) =>
                    /\ list'[client] = 1
                    /\ calls[i].max.n >= 1 =>
                          calls'[i].pc = "next" /\ calls'[i].nextCalls = <<request>>
         ]_vars
    /\ \A c \in ClientIds, h \in Handles :
          (\E t \in TimersFor(timers, c) : t.id = h)
              ~> (  (c \notin DOMAIN list /\ ~Pending(timers, h))
                 \/ timeout # Some(h) )

\* the call just rejected armed the timer, the timer has fired, and the entry of the
\* rejected client is gone
C7_Witness ==
    /\ list = <<>> /\ timers = {} /\ IsSome(timeout)
    /\ \E i \in Calls :
          /\ calls[i].pc = "done" /\ Rejected(calls[i])
          /\ "Retry-After" \in DOMAIN Val(calls[i].response).headers

\* C8: time alone does not clear the entry of a client the pending timer is not
\* for: a windowed call of another client leaves no timer for A, and while no timer
\* is for A its entry stays and its count changes only by A's own calls; a timer
\* for A comes only from a windowed call of A.
C8_OthersNotEvicted ==
    [][\A a \in ClientIds :
        LET countsFor(c) == \E i \in Calls : Counts(i) /\ ClientOf(Val(calls[i].request)) = c
        IN  /\ (\E b \in ClientIds \ {a} : countsFor(b) /\ timeout' # timeout) =>
                  TimersFor(timers', a) = {}
            /\ (a \in DOMAIN list /\ TimersFor(timers, a) = {}) =>
                  /\ a \in DOMAIN list'
                  /\ list'[a] = list[a] + (IF countsFor(a) THEN 1 ELSE 0)
            /\ (TimersFor(timers', a) # {} /\ TimersFor(timers, a) = {}) =>
                  countsFor(a) /\ timeout' # timeout
      ]_vars

\* every call is windowed, no timer is pending any more, and a client still has its
\* entry: its timer was cancelled by another client's call, whose timer has fired
C8_Witness ==
    /\ Uniform /\ timers = {} /\ IsSome(timeout)
    /\ \E a \in DOMAIN list, b \in ClientIds : b \notin DOMAIN list /\ list[a] >= 1

\* C9: whatever calls and timer firings have happened, in whatever interleaving,
\* at most one eviction timer is pending.
C9_OneTimer == Cardinality(timers) <= 1

\* two calls are in flight, both clients have an entry, one timer is pending
C9_Witness ==
    /\ Cardinality(timers) = 1
    /\ Cardinality(DOMAIN list) = 2
    /\ \E i, j \in Calls : i # j /\ ~Awaited
          /\ calls[i].pc \notin {"idle", "done"} /\ calls[j].pc \notin {"idle", "done"}

\* C10: in a run of awaited calls, every call with a truthy inS cancels the timer
\* the previous such call armed before it schedules its own, which is for the
\* call's own client and runs after inS seconds; so setTimeout has been called as
\* often as clearTimeout, or once more.
C10_CancelBeforeSchedule ==
    [][ /\ spy' \in {0, 1}
        /\ \A i \in Calls, inS \in InSArgs, onQuotaReached \in BOOLEAN :
              (Count(i, inS, onQuotaReached) /\ Truthy(inS)) =>
                  LET client == ClientOf(Val(calls[i].request))
                  IN  /\ IsSome(timeout')
                      /\ timers' = { [ id        |-> Val(timeout'),
                                       requestIp |-> client,
                                       ms        |-> inS.n * MsPerSecond ] }
                      /\ \A t \in timers : ~Pending(timers', t.id)
                      /\ timeout = None => spy' = spy + 1
                      /\ IsSome(timeout) => spy' = spy
      ]_vars

\* every call is windowed, a client has made at least two of them in a row, and the
\* timer of the last one is the only one pending, with its full delay
C10_Witness ==
    /\ Uniform /\ spy = 1
    /\ \E c \in ClientIds :
          /\ run[c] >= 2
          /\ \E t \in timers :
                /\ timers = {t} /\ timeout = Some(t.id) /\ t.requestIp = c
                /\ t.ms = Val(workload[c].inS).n * MsPerSecond /\ t.ms > MsPerSecond

----------------------------------------------------------------------------
(* CORS headers of a rejection *)

\* value.split( ', ' ) of a header value listing header names
HeaderList(value) == Split(RemoveWhitespace(value))

\* the exposed headers of a rejection: those of the response once it is built,
\* and while onQuotaReached runs the defaults followed by those of corsOptions
ExposedHeaders(call) ==
    IF call.pc = "onQuotaReached"
    THEN CorsExposedHeaders \o Val(call.corsOptions.exposedHeaders)
    ELSE HeaderList(Val(call.response).headers["Access-Control-Expose-Headers"])

\* C11: a rejection by a call given a cors argument (true or a policy) exposes, in
\* this order and with none left out, the default exposed headers, the policy's
\* exposedHeaders (none when cors is true or the policy has none) and
\* X-Max-Requests.
C11_ExposeHeaders ==
    [][\A i \in Calls :
        /\ \A inS \in InSArgs, corsArg \in CorsArgs \ {Undefined}, onQuotaReached \in BOOLEAN :
              (CountWith(i, inS, corsArg, onQuotaReached) /\ Rejected(calls'[i])) =>
                  LET given == IF corsArg # True /\ IsSome(corsArg.exposedHeaders)
                               THEN Val(corsArg.exposedHeaders) ELSE <<>>
                  IN  ExposedHeaders(calls'[i])
                        = << <<"Connection">>, <<"Retry-After">>, <<"Keep-Alive">>, <<"Date">> >>
                          \o given \o << <<"X-Max-Requests">> >>
        /\ (calls[i].pc = "onQuotaReached" /\ calls[i].corsOptions # Undefined
              /\ calls'[i].pc # "onQuotaReached" /\ ~Failed(calls'[i])) =>
                  /\ calls'[i].pc = "done"
                  /\ ExposedHeaders(calls'[i]) = ExposedHeaders(calls[i])
      ]_vars

\* a call given the policy { exposedHeaders: [ 'X-Custom-Header' ] } was rejected
\* and has returned its response
C11_Witness ==
    \E i \in Calls :
        /\ calls[i].pc = "done" /\ Rejected(calls[i])
        /\ "Access-Control-Expose-Headers" \in DOMAIN Val(calls[i].response).headers
        /\ ExposedHeaders(calls[i])
             = << <<"Connection">>, <<"Retry-After">>, <<"Keep-Alive">>, <<"Date">>,
                  <<"X-Custom-Header">>, <<"X-Max-Requests">> >>

----------------------------------------------------------------------------
(* Failures *)

\* C12: running out of quota is no failure: the rejected call returns the 429
\* response; a call fails only when `next` or onQuotaReached fails, and then with
\* the very error that collaborator threw.
C12_OnlyCollaboratorsFail ==
    [][\A i \in Calls :
        /\ (Counts(i) /\ Rejected(calls'[i])) =>
              /\ ~Failed(calls'[i])
              /\ calls'[i].pc = "done" =>
                    Val(calls'[i].response).status = 429 /\ calls'[i].thrown = None
        /\ (calls[i].pc = "onQuotaReached" /\ calls'[i].pc # "onQuotaReached") =>
              \/ /\ Rejected(calls'[i]) /\ calls'[i].thrown = None
                 /\ Val(calls'[i].response).status = 429
              \/ \E error \in Errors : QuotaReachedThrows(i, error)
        /\ (~Failed(calls[i]) /\ Failed(calls'[i])) =>
              \E error \in Errors :
                  /\ NextThrows(i, error) \/ QuotaReachedThrows(i, error)
                  /\ calls'[i].thrown = Some(error)
                  /\ calls'[i].response = None
      ]_vars

\* a call of a client whose count has reached MaxQuota has returned a 429
C12_Witness ==
    \E i \in Calls :
        /\ calls[i].pc = "done" /\ Rejected(calls[i]) /\ calls[i].thrown = None
        /\ Val(calls[i].response).status = 429
        /\ \E c \in DOMAIN list : list[c] = MaxQuota

----------------------------------------------------------------------------
(* Client identifiers *)

\* C13: a call whose request resolves to no client identifier (null or the empty
\* string) is counted under '::1': such calls share one entry and one quota, and
\* onQuotaReached is given '::1'.
C13_LocalhostFallback ==
    [][\A i \in Calls :
        (Counts(i) /\ getRequestIp(Val(calls[i].request)) \in {None, Some(<<>>)}) =>
            LET key    == <<":", ":", "1">>
                before == IF key \in DOMAIN list THEN list[key] ELSE 0
            IN  /\ DOMAIN list' = DOMAIN list \cup {key}
                /\ list'[key] = before + 1
                /\ \A k \in DOMAIN list \ {key} : list'[k] = list[k]
                /\ calls'[i].pc = "next" <=> before + 1 <= calls[i].max.n
                /\ calls'[i].pc = "onQuotaReached" =>
                      calls'[i].onQuotaCalls = <<[requestIp |-> key, list |-> "list"]>>
      ]_vars

\* a call whose request has no address header was admitted as the first under
\* '::1', and a call whose X-Real-Ip is blank, counted second under the same key,
\* has handed '::1' to onQuotaReached
C13_Witness ==
    /\ <<":", ":", "1">> \in DOMAIN list /\ list[<<":", ":", "1">>] = 2
    /\ \E i, j \in Calls :
          /\ calls[i].pc = "next"
          /\ "X-Real-Ip" \notin DOMAIN calls[i].nextCalls[1].headers
          /\ calls[j].pc = "onQuotaReached"
          /\ "X-Real-Ip" \in DOMAIN Val(calls[j].request).headers
          /\ calls[j].onQuotaCalls[1].requestIp = <<":", ":", "1">>

----------------------------------------------------------------------------
(* getRequestIp called on its own, on requests with any address headers *)

\* the longest header value
MaxHeaderLen == 3

\* header values: digits, commas and blanks
HeaderPieces == {"7", "9", ",", " "}
HeaderValues == UNION { [1..n -> HeaderPieces] : n \in 0..MaxHeaderLen }

\* the requests: each of X-Forwarded-For and X-Real-Ip absent or with any value
IncomingHeaders ==
    UNION { [names -> HeaderValues] : names \in SUBSET {"X-Forwarded-For", "X-Real-Ip"} }

GetIpInit ==
    /\ RateLimitInit /\ workload = [c \in ClientIds |-> Free]
    /\ NoEnv
    /\ incoming \in IncomingHeaders
    /\ ip = None
    /\ BodyInit
    /\ NoResponse

\* await getRequestIp( request )
ResolveIp ==
    /\ ip = None
    /\ ip' = Some(getRequestIp([headers |-> incoming]))
    /\ UNCHANGED <<incoming, rateLimitVars, bodyVars, responseVars>>

GetIpSpec == GetIpInit /\ [][ResolveIp]_vars

\* what follows the last comma of a value, its whitespace removed
LastField(value) ==
    LET stripped == SelectSeq(value, LAMBDA ch : ch # " " /\ ch # "\t")
        commas   == { k \in 1..Len(stripped) : stripped[k] = "," }
        last     == IF commas = {} THEN 0
                    ELSE CHOOSE k \in commas : \A j \in commas : j <= k
    IN  SubSeq(stripped, last + 1, Len(stripped))

\* C14: getRequestIp gives the last entry of X-Forwarded-For (split at commas,
\* whitespace removed) when that entry is not empty, else the last entry of
\* X-Real-Ip when that is not empty, else null.
C14_GetRequestIp ==
    IsSome(ip) =>
        LET present(name) == name \in DOMAIN incoming /\ LastField(incoming[name]) # <<>>
        IN  Val(ip) = IF present("X-Forwarded-For")
                      THEN Some(LastField(incoming["X-Forwarded-For"]))
                      ELSE IF present("X-Real-Ip")
                      THEN Some(LastField(incoming["X-Real-Ip"]))
                      ELSE None

\* X-Forwarded-For is "9,7" beside an X-Real-Ip, and getRequestIp has given "7"
C14_Witness ==
    /\ ip = Some(Some(<<"7">>))
    /\ DOMAIN incoming = {"X-Forwarded-For", "X-Real-Ip"}
    /\ incoming["X-Forwarded-For"] = <<"9", ",", "7">>
    /\ incoming["X-Real-Ip"] = <<"9">>

----------------------------------------------------------------------------
(* readJsonBody, on a body of the Fetch API.  JSON texts are rows of the pieces
   1 [ ] , : numbers written with the digit 1, and arrays. *)

\* the longest body text
MaxBodyLen == 3
\* the most reads of one body
MaxReads == 3

BodyPieces == {"1", "[", "]", ","}
BodyTexts == UNION { [1..n -> BodyPieces] : n \in 0..MaxBodyLen }

JsNull == [t |-> "null"]
JsArray(a) == [t |-> "array", v |-> a]

\* the fields of an array's text: split at the commas outside nested brackets
RECURSIVE SplitTop(_)
SplitTop(text) ==
    LET depth(k) == Cardinality({ j \in 1..(k - 1) : text[j] = "[" })
                    - Cardinality({ j \in 1..(k - 1) : text[j] = "]" })
        top      == { k \in 1..Len(text) : text[k] = "," /\ depth(k) = 0 }
    IN  IF top = {} THEN <<text>>
        ELSE LET k == CHOOSE x \in top : \A y \in top : x <= y
             IN  <<SubSeq(text, 1, k - 1)>> \o SplitTop(SubSeq(text, k + 1, Len(text)))

\* JSON.parse: the value, or none when the text is not JSON (a SyntaxError)
RECURSIVE JSONParse(_)
JSONParse(text) ==
    IF text = <<>> THEN None
    ELSE IF \A k \in 1..Len(text) : text[k] = "1" THEN Some(Num(DecimalValue(text)))
    ELSE IF Len(text) >= 2 /\ text[1] = "[" /\ text[Len(text)] = "]"
    THEN LET inner  == SubSeq(text, 2, Len(text) - 1)
             fields == SplitTop(inner)
             parsed == [k \in 1..Len(fields) |-> JSONParse(fields[k])]
         IN  IF inner = <<>> THEN Some(JsArray(<<>>))
             ELSE IF \E k \in 1..Len(fields) : parsed[k] = None THEN None
             ELSE Some(JsArray([k \in 1..Len(fields) |-> Val(parsed[k])]))
    ELSE None

\* JSON.stringify
RECURSIVE JSONStringify(_)
JSONStringify(value) ==
    IF value.t = "number" THEN NumberToString(value.n)
    ELSE <<"[">> \o Join([k \in 1..Len(value.v) |-> JSONStringify(value.v[k])], <<",">>)
         \o <<"]">>

\* the outcome of a step that may throw: the value it gives, and the body after it
Gives(value, b) == [threw |-> FALSE, value |-> value, body |-> b]
Throws(b) == [threw |-> TRUE, value |-> JsNull, body |-> b]

\* Body.json(): a TypeError on a body already used; else the body is read to its
\* end (a body that is there becomes used) and its text parsed
BodyJson(b) ==
    IF b.used THEN Throws(b)
    ELSE LET text == IF IsSome(b.text) THEN Val(b.text) ELSE <<>>
             read == [b EXCEPT !.used = IsSome(b.text)]
         IN  IF IsSome(JSONParse(text)) THEN Gives(Val(JSONParse(text)), read)
             ELSE Throws(read)

\* Body.clone(): a TypeError on a body already used; else a body with the same text
BodyClone(b) == IF b.used THEN Throws(b) ELSE Gives(b, b)

CatchNothing(attempt) == attempt

\* catch ( error ) { return null }
Catch(attempt) == IF attempt.threw THEN Gives(JsNull, attempt.body) ELSE attempt

\* readJsonBody( body, clone ): what it resolves to, and the body after it
readJsonBody(b, clone) ==
    Catch(IF ~clone THEN BodyJson(b)
          ELSE LET cloned == BodyClone(b)
               IN  IF cloned.threw THEN Throws(b)
                   ELSE [BodyJson(cloned.value) EXCEPT !.body = b])

BodyReadInit ==
    /\ RateLimitInit /\ workload = [c \in ClientIds |-> Free]
    /\ NoEnv
    /\ RequestInit
    /\ body \in { [text |-> text, used |-> FALSE] :
                     text \in {None} \cup { Some(t) : t \in BodyTexts } }
    /\ reads = <<>>
    /\ NoResponse

\* await readJsonBody( body, clone )
ReadJsonBody(clone) ==
    LET outcome == readJsonBody(body, clone)
    IN  /\ Len(reads) < MaxReads
        /\ body' = outcome.body
        /\ reads' = Append(reads, [clone |-> clone, threw |-> outcome.threw,
                                   value |-> outcome.value])
        /\ UNCHANGED <<rateLimitVars, requestVars, responseVars>>

BodyReadSpec == BodyReadInit /\ [][\E clone \in BOOLEAN : ReadJsonBody(clone)]_vars

\* C15: readJsonBody never throws.  A read gives the parsed JSON when the body has
\* a JSON text and no earlier read consumed it, and null when the body is empty,
\* is not JSON or was consumed; reads with clone = true leave the body unconsumed,
\* a read with clone = false consumes it.
C15_ReadJsonBody ==
    /\ \A k \in 1..Len(reads) :
          LET consumed == IsSome(body.text) /\ \E j \in 1..(k - 1) : ~reads[j].clone
              readable == IsSome(body.text) /\ IsSome(JSONParse(Val(body.text)))
          IN  /\ ~reads[k].threw
              /\ IF readable /\ ~consumed
                 THEN /\ reads[k].value # JsNull
                      /\ JSONStringify(reads[k].value) = Val(body.text)
                 ELSE reads[k].value = JsNull
    /\ body.used <=> (IsSome(body.text) /\ \E j \in 1..Len(reads) : ~reads[j].clone)

\* the body [1] was read with clone, then without, then again without: the first
\* two reads gave the array, the third null
C15_Witness ==
    /\ body = [text |-> Some(<<"[", "1", "]">>), used |-> TRUE]
    /\ reads = << [clone |-> TRUE,  threw |-> FALSE, value |-> JsArray(<<Num(1)>>)],
                  [clone |-> FALSE, threw |-> FALSE, value |-> JsArray(<<Num(1)>>)],
                  [clone |-> FALSE, threw |-> FALSE, value |-> JsNull] >>

----------------------------------------------------------------------------
(* A NextResponse constructed on its own, with CORS enabled: the allowed origin.
   Origins are written with the hosts a and b. *)

\* the longest `origin` string of a policy
MaxOriginLen == 3
\* the most entries of an `origin` array
MaxOrigins == 2

OriginPieces == {"a", "b", "/", ",", " ", "*"}
OriginStrings == UNION { [1..n -> OriginPieces] : n \in 0..MaxOriginLen }
OriginEntries == { <<"a">>, <<"a", "/">>, <<"b">>, <<"*">>, <<>> }
OriginArrays == UNION { [1..n -> OriginEntries] : n \in 0..MaxOrigins }

\* the `cors` of the props: true, or a policy whose origin is absent, a string or
\* an array
CorsPolicies ==
    {True} \cup { [NoPolicy EXCEPT !.origin = o] :
                     o \in {None} \cup { Some(StringOrigin(str)) : str \in OriginStrings }
                                  \cup { Some(ArrayOrigin(a)) : a \in OriginArrays } }

\* the `request` of the props: none, or one whose Origin header is absent or given
OriginRequests ==
    { None, Some([headers |-> <<>>]) }
    \cup { Some([headers |-> ("Origin" :> o)]) : o \in { <<"a">>, <<"a", "/">>, <<"b">> } }

\* ALLOWED_API_ORIGINS: not set, the wildcard, one origin, two origins
EnvOrigins == { None, Some(<<"*">>), Some(<<"a">>), Some(<<"b", "/", ",", " ", "a">>) }

ConstructInit ==
    /\ RateLimitInit /\ workload = [c \in ClientIds |-> Free]
    /\ RequestInit
    /\ BodyInit
    /\ ALLOWED_API_ORIGINS \in EnvOrigins
    /\ responseProps \in { [init |-> None, cors |-> policy, request |-> request] :
                              policy \in CorsPolicies, request \in OriginRequests }
    /\ constructed = None
    /\ NoHandlers

\* new NextResponse( { cors, request } )
Construct ==
    /\ constructed = None
    /\ LET r == NextResponse(CorsOptions, responseProps, ALLOWED_API_ORIGINS)
       IN  constructed' = Some(r.response) /\ CorsOptions' = r.CorsOptions
    /\ UNCHANGED <<list, timeout, timers, calls, spy, run, workload, admitted, created, lastCall, alone,
                   ALLOWED_API_ORIGINS, requestVars, bodyVars, responseProps,
                   handlers, armedBy>>

ConstructSpec == ConstructInit /\ [][Construct]_vars

\* the Origin header of the request of the props, when it has one
RequestOrigin ==
    IF IsSome(responseProps.request)
    THEN LET origin == HeadersGet(Val(responseProps.request).headers, "Origin")
         IN  IF IsSome(origin) /\ Val(origin) # <<>> THEN origin ELSE None
    ELSE None

\* the origin(s) configured by the policy or else by ALLOWED_API_ORIGINS, if any
ConfiguredOrigin ==
    LET policy == IF responseProps.cors = True THEN NoPolicy ELSE responseProps.cors
    IN  IF IsSome(policy.origin) /\ Val(policy.origin) # StringOrigin(<<>>)
        THEN policy.origin
        ELSE IF IsSome(ALLOWED_API_ORIGINS) /\ Val(ALLOWED_API_ORIGINS) # <<>>
        THEN Some(StringOrigin(Val(ALLOWED_API_ORIGINS)))
        ELSE None

\* the allowed origin is the wildcard: nothing is configured, or '*' is
AllowsAnyOrigin ==
    ~IsSome(ConfiguredOrigin) \/ ConfiguredOrigin = Some(StringOrigin(WildCard))

\* the entries of an origin list, each without its trailing slash
Origins(origin) ==
    IF origin.t = "array"
    THEN [k \in 1..Len(origin.entries) |-> removeTrailingSlash(origin.entries[k])]
    ELSE OriginList(origin.v)

\* the allowed-origin list contains the request origin, trailing slash ignored
AllowsRequestOrigin ==
    /\ IsSome(ConfiguredOrigin)
    /\ LET allowed == Origins(Val(ConfiguredOrigin))
       IN  \E k \in 1..Len(allowed) : allowed[k] = removeTrailingSlash(Val(RequestOrigin))

AllowOriginHeader == Val(constructed).headers["Access-Control-Allow-Origin"]

\* C16: the Access-Control-Allow-Origin header of a NextResponse is the request's
\* Origin when the request has one and either the allowed origin is the wildcard
\* (also the default when nothing is configured) or the allowed-origin list
\* contains the request origin, trailing slash ignored; otherwise it is the
\* configured origins, and '*' when nothing is configured and the request has no
\* origin.
C16_AllowOrigin ==
    IsSome(constructed) =>
        IF IsSome(RequestOrigin) /\ (AllowsAnyOrigin \/ AllowsRequestOrigin)
        THEN AllowOriginHeader = Val(RequestOrigin)
        ELSE IF AllowsAnyOrigin
        THEN AllowOriginHeader = WildCard
        ELSE \/ AllowOriginHeader = OriginToString(Val(ConfiguredOrigin))
             \/ AllowOriginHeader = Join(Origins(Val(ConfiguredOrigin)), <<",">>)

\* a response whose allowed-origin list contains the origin of its request
C16_Witness ==
    /\ IsSome(constructed)
    /\ IsSome(RequestOrigin)
    /\ ~AllowsAnyOrigin
    /\ AllowsRequestOrigin
    /\ AllowOriginHeader = Val(RequestOrigin)

----------------------------------------------------------------------------
(* Calls in flight together *)

\* C17: however concurrent calls interleave, the step in which a call is counted
\* cancels and re-arms the timer, increments the count and compares it with max
\* with no step of another call and no timer firing in between; so no increment is
\* lost: a client's count is the number of its calls counted since its entry was
\* last evicted, and a call is admitted only if it is among the first max of them.
C17_AtomicCount ==
    [][ /\ \A c \in ClientIds : MapGetOrZero(list', c) = run'[c]
        /\ \A i \in Calls : Counts(i) =>
              LET c   == ClientOf(Val(calls[i].request))
                  max == calls[i].max
              IN  /\ \A j \in Calls \ {i} : calls'[j] = calls[j]
                  /\ run'[c] = run[c] + 1
                  /\ list'[c] = MapGetOrZero(list, c) + 1
                  /\ \A d \in ClientIds \ {c} :
                        MapGetOrZero(list', d) = MapGetOrZero(list, d)
                  /\ calls'[i].pc = "next" <=> run'[c] <= max.n
                  /\ \A t \in timers' : t \in timers \/ timeout' = Some(t.id)
                  /\ timers' # timers =>
                        /\ \A t \in timers : timeout = Some(t.id)
                        /\ \E t \in timers' : timers' = {t} /\ t.requestIp = c
      ]_vars

\* a call still waits for getRequestIp while a later call for the same client has
\* been counted and rejected, every call so far having been counted
C17_Witness ==
    /\ calls[1].pc = "getRequestIp"
    /\ calls[2].pc = "onQuotaReached"
    /\ LET c == ClientOf(Val(calls[1].request))
       IN  /\ ClientOf(Val(calls[2].request)) = c
           /\ c \in DOMAIN list /\ list[c] >= 2 /\ list[c] = run[c]

----------------------------------------------------------------------------
(* The count *)

\* C18: a call with a finite non-zero max adds exactly one to the entry of its
\* client, which becomes 1 when the client had none, whether the call is then
\* admitted or rejected, and no other client's entry changes; a call with any other
\* max is not counted.
C18_CountsEveryCall ==
    [][ \A i \in Calls :
          /\ (calls[i].pc \in {"idle", "done"} /\ calls'[i].pc \notin {"idle", "done"}) =>
                /\ list' = list
                /\ calls'[i].pc = "getRequestIp" <=>
                      (calls'[i].max \in {Num(n) : n \in 1..MaxMax})
          /\ Counts(i) =>
                LET c == ClientOf(Val(calls[i].request))
                IN  /\ calls[i].max \in {Num(n) : n \in 1..MaxMax}
                    /\ calls'[i].pc = "next" \/ Rejected(calls'[i])
                    /\ DOMAIN list' = DOMAIN list \cup {c}
                    /\ list'[c] = (IF c \in DOMAIN list THEN list[c] + 1 ELSE 1)
                    /\ \A d \in DOMAIN list \ {c} : list'[d] = list[d]
      ]_vars

\* a rejected call has been counted beyond its max while another client keeps its
\* own entry
C18_Witness ==
    \E i \in Calls :
        /\ calls[i].pc = "onQuotaReached"
        /\ LET c == ClientOf(Val(calls[i].request))
           IN  /\ c \in DOMAIN list /\ list[c] = MaxQuota
               /\ \E d \in DOMAIN list \ {c} : list[d] = 1

----------------------------------------------------------------------------
(* When an entry is removed *)

\* the step removes the entry of client c
Removes(c) == c \in DOMAIN list /\ c \notin DOMAIN list'

----------------------------------------------------------------------------
(* Beyond the quota *)

\* C20: once the count of a client whose callers always pass the same max exceeds
\* that max, every later call for the client is rejected without invoking `next`,
\* and the count does not go down, until a timer's callback deletes the client's
\* entry; a call for the client is admitted again only when the count it reads is
\* below max, which takes that deletion.
C20_RejectedUntilEvicted ==
    [][ \A c \in ClientIds :
          IsSome(workload[c].max) =>
              LET max == Val(workload[c].max).n
              IN  /\ MapGetOrZero(list, c) > max =>
                        /\ \A i \in Calls :
                              (Counts(i) /\ ClientOf(Val(calls[i].request)) = c) =>
                                  /\ Rejected(calls'[i])
                                  /\ calls'[i].nextCalls = <<>>
                        /\ c \in DOMAIN list' => list'[c] >= list[c]
                        /\ Removes(c) =>
                              /\ AdvanceTimers
                              /\ \E t \in TimersFor(timers, c) : t.ms <= MsPerSecond
                  /\ \A i \in Calls :
                        (Counts(i) /\ ClientOf(Val(calls[i].request)) = c
                           /\ calls'[i].pc = "next") => MapGetOrZero(list, c) < max
      ]_vars

\* a call is rejected whose client's count already exceeded the max its callers
\* always pass
C20_Witness ==
    \E i \in Calls :
        /\ calls[i].pc = "onQuotaReached"
        /\ LET c == ClientOf(Val(calls[i].request))
           IN  /\ IsSome(workload[c].max)
               /\ c \in DOMAIN list
               /\ list[c] >= Val(workload[c].max).n + 2

----------------------------------------------------------------------------
(* The entries of the list *)

\* C21: in every reachable state the list has at most one entry per client
\* identifier, its keys being client identifiers, and every entry holds an integer
\* count of at least 1: never 0, never a negative number.
C21_EntriesPositive ==
    /\ DOMAIN list \subseteq ClientIds
    /\ \A c \in DOMAIN list : list[c] \in Nat /\ list[c] >= 1

\* both clients have an entry, each counted more than once
C21_Witness ==
    /\ Cardinality(DOMAIN list) = 2
    /\ \A c \in DOMAIN list : list[c] >= 2

----------------------------------------------------------------------------
(* Calls that pass no window *)

\* C22: a call whose inS is 0 or absent neither cancels nor schedules the timer:
\* the handle, the pending timers with their clients and remaining delays, and the
\* spies' counts stay as they were, while the call still adds one to the count of
\* its client and admits or rejects by it.
C22_NoWindowNoTimer ==
    [][ \A i \in Calls, inS \in {Undefined, Num(0)}, onQuotaReached \in BOOLEAN :
          Count(i, inS, onQuotaReached) =>
              LET c == ClientOf(Val(calls[i].request))
              IN  /\ timers' = timers /\ timeout' = timeout /\ spy' = spy
                  /\ list'[c] = MapGetOrZero(list, c) + 1
                  /\ IF list'[c] <= calls[i].max.n
                     THEN calls'[i].pc = "next"
                     ELSE Rejected(calls'[i])
      ]_vars

\* a call of one client has been rejected with no Retry-After header while the
\* pending timer is still the one armed for the other client, due in a second
C22_Witness ==
    \E i \in Calls :
        /\ calls[i].pc = "onQuotaReached"
        /\ "Retry-After" \notin DOMAIN Val(calls[i].responseInit).headers
        /\ \E t \in timers :
              /\ timers = {t} /\ timeout = Some(t.id)
              /\ t.requestIp # ClientOf(Val(calls[i].request))
              /\ t.ms = MsPerSecond

----------------------------------------------------------------------------
(* What onQuotaReached can do with the list it is handed.  Line 78 passes `list`
   itself, the module's Map; its type, List, is Map<string, number>.  Under Spec
   and ConcurrentSpec the callback does not write through it, as the mock of the
   tests does not; here it may. *)

\* Map.clear()
MapClear(l) == <<>>

\* what the callback calls on its second argument: list.delete( requestIp ),
\* list.set( requestIp, 1 ), list.clear()
MapMethods == {"delete", "set", "clear"}

\* the Map after the callback has made that call
Through(l, method, requestIp) ==
    CASE method = "delete" -> MapDelete(l, requestIp)
      [] method = "set"    -> MapSet(l, requestIp, 1)
      [] method = "clear"  -> MapClear(l)

\* the callback, running, calls a method of the Map it was handed; the calls
\* counted for a client start again from what the callback left in its entry
QuotaReachedWrites(i, method) ==
    /\ calls[i].pc = "onQuotaReached"
    /\ list' = Through(list, method, calls[i].onQuotaCalls[1].requestIp)
    /\ list' # list
    /\ run' = [ c \in ClientIds |->
                  IF MapGetOrZero(list', c) = MapGetOrZero(list, c)
                  THEN run[c] ELSE MapGetOrZero(list', c) ]
    /\ created' = [ c \in ClientIds |-> IF c \in DOMAIN list' THEN created[c] ELSE None ]
    /\ lastCall' = [ c \in ClientIds |-> IF c \in DOMAIN list' THEN lastCall[c] ELSE None ]
    /\ UNCHANGED <<timeout, timers, calls, spy, workload, admitted, alone, CorsOptions,
                   ALLOWED_API_ORIGINS>>
    /\ UNCHANGED others

\* awaited calls that pass no `cors`, whose onQuotaReached may write to the Map
CallbackNext ==
    \/ /\ Awaited
       /\ \E i \in Calls, request \in Requests, max \in MaxArgs : Call(i, request, max)
    \/ \E i \in Calls, inS \in InSArgs, onQuotaReached \in BOOLEAN :
            CountWith(i, inS, Undefined, onQuotaReached)
    \/ \E i \in Calls : NextReturns(i)
    \/ \E i \in Calls, method \in MapMethods : QuotaReachedWrites(i, method)
    \/ \E i \in Calls : QuotaReachedReturns(i)
    \/ AdvanceTimers

CallbackSpec == ConcurrentInit /\ [][CallbackNext]_vars

\* C23: onQuotaReached is handed a read-only view of the list: nothing it does
\* with its second argument adds, changes or deletes an entry, so from the moment
\* the callback is invoked until it has returned, no timer running meanwhile, the
\* list stays as it was.
C23_ReadOnlyView ==
    [][ \A i \in Calls :
          (calls[i].pc = "onQuotaReached" /\ timers' = timers) => list' = list
      ]_vars

\* the callback has been invoked for a client whose entry is in the list
C23_Witness ==
    \E i \in Calls :
        /\ calls[i].pc = "onQuotaReached"
        /\ calls[i].onQuotaCalls[1].requestIp \in DOMAIN list

----------------------------------------------------------------------------
(* Route handlers that use NextResponse.  A handler may call NextResponse.cors()
   and build its response later, after an await, or build it in the same step
   (NextResponse.cors( request ).json( ... ), or new NextResponse( { cors } )). *)

\* the policies, requests and ResponseInits the handlers pass
HandlerPolicies ==
    { None, Some([NoPolicy EXCEPT !.origin = Some(StringOrigin(<<"a">>))]),
      Some([NoPolicy EXCEPT !.exposedHeaders = Some(<<CustomHeader>>)]) }
HandlerRequests == { None, Some([headers |-> ("Origin" :> <<"a">>)]) }
HandlerInits ==
    { None, Some([status |-> DefaultStatus, headers |-> ("X-Custom-Header" :> <<"1">>)]) }
HandlerProps ==
    { [init |-> init, cors |-> corsArg, request |-> request] :
        init \in HandlerInits, request \in HandlerRequests,
        corsArg \in {Undefined, True} \cup { Val(policy) : policy \in HandlerPolicies \ {None} } }

\* NextResponse.cors( request, policy ), the response not built yet
HandlerArms(h, request, policy) ==
    /\ handlers[h].armed = None /\ handlers[h].response = None
    /\ CorsOptions' = cors(request, policy)
    /\ handlers' = [handlers EXCEPT ![h].armed = CorsOptions']
    /\ armedBy' = Some(h)
    /\ UNCHANGED <<list, timeout, timers, calls, spy, run, workload, admitted, created, lastCall, alone,
                   ALLOWED_API_ORIGINS, requestVars, bodyVars, responseProps, constructed>>

\* new NextResponse( props ); with no `cors` in the props this is also what json,
\* stream and the builders on top of them do: the response takes CorsInit( init )
HandlerBuilds(h, props) ==
    /\ handlers[h].response = None
    /\ LET r == NextResponse(CorsOptions, props, ALLOWED_API_ORIGINS)
       IN  /\ handlers' = [handlers EXCEPT ![h].props = Some(props),
                                           ![h].response = Some(r.response)]
           /\ CorsOptions' = r.CorsOptions
    /\ armedBy' = None
    /\ UNCHANGED <<list, timeout, timers, calls, spy, run, workload, admitted, created, lastCall, alone,
                   ALLOWED_API_ORIGINS, requestVars, bodyVars, responseProps, constructed>>

\* the handler returns its response, or fails after it called NextResponse.cors()
HandlerEnds(h) ==
    /\ handlers[h] # IdleHandler
    /\ handlers' = [handlers EXCEPT ![h] = IdleHandler]
    /\ UNCHANGED <<rateLimitVars, armedBy, requestVars, bodyVars, responseProps, constructed>>

HandlersInit ==
    /\ RateLimitInit /\ workload = [c \in ClientIds |-> Free]
    /\ NoEnv
    /\ RequestInit
    /\ BodyInit
    /\ NoResponse

HandlersNext ==
    \/ \E h \in Handlers, request \in HandlerRequests, policy \in HandlerPolicies :
            HandlerArms(h, request, policy)
    \/ \E h \in Handlers, props \in HandlerProps : HandlerBuilds(h, props)
    \/ \E h \in Handlers : HandlerEnds(h)

HandlersSpec == HandlersInit /\ [][HandlersNext]_vars

\* the step builds the response of handler h
Builds(h) == handlers[h].response = None /\ handlers'[h].response # None

\* the names of the headers CorsHeaders sets
CorsHeaderNames ==
    { "Access-Control-Allow-Origin", "Access-Control-Allow-Credentials",
      "Access-Control-Allow-Headers", "Access-Control-Expose-Headers",
      "Access-Control-Allow-Methods" }

\* C24: the options NextResponse.cors() armed, or the constructor armed for a
\* truthy `cors`, are applied to the next response built through CorsInit, and
\* CorsOptions is undefined after every such build; so a response built with no
\* `cors` while nothing is armed has the headers of its init and no CORS header,
\* whatever was armed and built before it.
C24_CorsOptionsReset ==
    [][ \A h \in Handlers :
          Builds(h) =>
              LET props    == Val(handlers'[h].props)
                  response == Val(handlers'[h].response)
                  init     == InitOrDefault(props.init)
              IN  /\ CorsOptions' = None
                  /\ (props.cors = Undefined /\ CorsOptions = None) =>
                        /\ response.headers = init.headers
                        /\ DOMAIN response.headers \cap CorsHeaderNames = {}
                  /\ (props.cors = Undefined /\ CorsOptions # None) =>
                        response.headers
                          = CorsHeaders(Val(CorsOptions), init.headers, ALLOWED_API_ORIGINS)
                  /\ props.cors # Undefined =>
                        "Access-Control-Allow-Origin" \in DOMAIN response.headers
      ]_vars

\* a handler that armed nothing has built a response with no CORS header, after the
\* other handler built one with the options it had armed for the origin a
C24_Witness ==
    \E h, g \in Handlers :
        /\ h # g
        /\ handlers[h].armed = None /\ handlers[h].response # None
        /\ Val(handlers[h].props).cors = Undefined
        /\ DOMAIN Val(handlers[h].response).headers \cap CorsHeaderNames = {}
        /\ handlers[g].armed # None /\ handlers[g].response # None
        /\ Val(handlers[g].props).cors = Undefined
        /\ "Access-Control-Allow-Origin" \in DOMAIN Val(handlers[g].response).headers
        /\ Val(handlers[g].response).headers["Access-Control-Allow-Origin"] = <<"a">>

\* C30: however the steps of concurrent handlers interleave, the options a handler
\* armed through NextResponse.cors() are applied only to a response that handler
\* builds, never to the response of another handler.
C30_OwnCorsOptions ==
    [][ \A h \in Handlers :
          (Builds(h) /\ Val(handlers'[h].props).cors = Undefined /\ CorsOptions # None)
              => armedBy = Some(h)
      ]_vars

\* a handler has built a response that carries the options it armed itself while
\* the other handler has armed options and not built yet
C30_Witness ==
    \E h, g \in Handlers :
        /\ h # g
        /\ handlers[h].armed # None /\ handlers[h].response # None
        /\ Val(handlers[h].props).cors = Undefined
        /\ IsSome(Val(handlers[h].armed).origin)
        /\ "Access-Control-Allow-Origin" \in DOMAIN Val(handlers[h].response).headers
        /\ Val(handlers[h].response).headers["Access-Control-Allow-Origin"] = <<"a">>
        /\ handlers[g].armed # None /\ handlers[g].response = None
        /\ armedBy = Some(g)

----------------------------------------------------------------------------
(* The decision *)

\* C25: a call with a finite non-zero max is admitted if and only if the count of
\* its client before the call (0 when it has no entry) plus one is at most the
\* max of this call; the count is the one entry of the client, whatever max and
\* inS the earlier calls passed, so a call is rejected once earlier calls, under
\* whatever max, have brought the count up to its own max.
C25_AdmittedIffWithinOwnMax ==
    [][ \A i \in Calls :
          Counts(i) =>
              LET c == ClientOf(Val(calls[i].request))
              IN  /\ calls'[i].pc = "next" <=> MapGetOrZero(list, c) + 1 <= calls[i].max.n
                  /\ calls'[i].pc # "next" <=> Rejected(calls'[i])
                  /\ calls'[i].pc = "next" => calls'[i].nextCalls = <<Val(calls[i].request)>>
      ]_vars

\* a call that passed max 1 has been rejected when the count of its client, whose
\* callers pass any max, went from 2 to 3
C25_Witness ==
    \E i \in Calls :
        /\ calls[i].pc = "onQuotaReached"
        /\ LET c       == ClientOf(Val(calls[i].request))
               headers == Val(calls[i].responseInit).headers
           IN  /\ workload[c] = Free
               /\ "X-Max-Requests" \in DOMAIN headers
               /\ headers["X-Max-Requests"] = NumberToString(1)
               /\ c \in DOMAIN list /\ list[c] = 3

----------------------------------------------------------------------------
(* Calls of a blocked client *)

\* C26: rejected calls extend the block.  Every caller passing the same max and
\* the same inS, a call of a client whose count has reached max is rejected and
\* still re-arms the timer for the client with the whole delay; the entry is
\* removed only when inS seconds have passed since the latest call of the client,
\* rejected or not; so as long as the client calls again before that, its entry
\* stays, the count keeps growing and no call of it is admitted, however long ago
\* its first call was.
C26_RejectedCallsExtendBlock ==
    [][ Uniform =>
          \A c \in DOMAIN list :
              LET max == Val(workload[c].max).n
                  inS == Val(workload[c].inS).n
              IN  /\ \A i \in Calls :
                        (Counts(i) /\ ClientOf(Val(calls[i].request)) = c /\ list[c] >= max) =>
                            /\ Rejected(calls'[i])
                            /\ list'[c] = list[c] + 1
                            /\ \E t \in timers' :
                                  /\ timers' = {t} /\ timeout' = Some(t.id)
                                  /\ t.requestIp = c /\ t.ms = inS * MsPerSecond
                  /\ Removes(c) => Val(lastCall[c]) + 1 >= inS
                  /\ (AdvanceTimers /\ Val(lastCall[c]) + 1 < inS) =>
                        (c \in DOMAIN list' /\ list'[c] = list[c])
      ]_vars

\* a client beyond its max still has its entry although the window of its first
\* call is over, because it called again, and was rejected, less than inS seconds ago
C26_Witness ==
    /\ Uniform
    /\ \E c \in DOMAIN list :
          /\ list[c] > Val(workload[c].max).n + 1
          /\ Val(created[c]) >= Val(workload[c].inS).n
          /\ Val(lastCall[c]) < Val(workload[c].inS).n
          /\ TimersFor(timers, c) # {}

----------------------------------------------------------------------------
(* One client and the calls of the others.  `alone` follows, for each client, the
   same statements of withRateLimit on the calls of that client only, every caller
   passing the same max and the same inS. *)

\* the call in slot i would be admitted had no other client ever called
AdmittedAlone(i) ==
    LET c == ClientOf(Val(calls[i].request))
    IN  WithinQuota(NextQuota(alone[c].list, c), calls[i].max)

\* C27, as stated: whether a call of a client is admitted is determined by the
\* calls of that client and the time elapsed: with the calls of the other clients
\* or without them, each of its calls has the same outcome.
C27_OthersNeverMatter ==
    [][ Uniform => \A i \in Calls : Counts(i) => (calls'[i].pc = "next" <=> AdmittedAlone(i)) ]_vars

\* C27, amended: a call of a client never changes the count of another client,
\* but a call that passes a window cancels the timer armed for the other client,
\* whose entry then stays beyond its window; so the count of a client is at least
\* what it would be without the calls of the others, a call admitted with them is
\* admitted without them, and a call admitted without them may be rejected with
\* them.
C27_OthersOnlyBlock ==
    [][ Uniform =>
          /\ \A c \in ClientIds :
                MapGetOrZero(alone'[c].list, c) <= MapGetOrZero(list', c)
          /\ \A i \in Calls :
                Counts(i) =>
                    LET c == ClientOf(Val(calls[i].request))
                    IN  /\ calls'[i].pc = "next" => AdmittedAlone(i)
                        /\ \A d \in ClientIds \ {c} :
                              /\ MapGetOrZero(list', d) = MapGetOrZero(list, d)
                              /\ TimersFor(timers', d) = {}
      ]_vars

\* a call of a client is rejected that would be the first of a new window, and
\* admitted, had the other client not called
C27_Witness ==
    /\ Uniform
    /\ \E i \in Calls :
          /\ calls[i].pc = "onQuotaReached"
          /\ LET c == ClientOf(Val(calls[i].request))
             IN  /\ c \in DOMAIN alone[c].list /\ alone[c].list[c] = 1
                 /\ c \in DOMAIN list /\ list[c] > Val(workload[c].max).n

----------------------------------------------------------------------------
(* Failures of the collaborators *)

\* the step is the failure of the collaborator the call in slot i awaited
Fails(i) == calls[i].pc \in {"next", "onQuotaReached"} /\ Failed(calls'[i])

\* C28: when next or onQuotaReached throws or rejects, nothing the call did before
\* is undone: the failure leaves the list, the handle and the pending timers as
\* they are, so the failed call still counts against its client: the count of a
\* client is the number of its calls counted since its entry was last absent,
\* the failed ones included.
C28_NoRollback ==
    [][ \A i \in Calls :
          Fails(i) =>
              /\ list' = list /\ timers' = timers /\ timeout' = timeout /\ spy' = spy
              /\ \A c \in ClientIds : MapGetOrZero(list', c) = run'[c]
      ]_vars

\* a call has failed, and the entries counted and the timer armed are still there
C28_Witness ==
    \E i \in Calls :
        /\ Failed(calls[i])
        /\ \E c \in DOMAIN list :
              /\ list[c] = run[c] /\ list[c] >= 2
              /\ \E t \in timers : timers = {t} /\ t.requestIp = c /\ timeout = Some(t.id)
                                     /\ t.ms = MaxWindow * MsPerSecond

----------------------------------------------------------------------------
(* max = 0.  The callers of the client ::1 always pass max 0; the callers of the
   other clients pass anything. *)

ZeroMax ==
    [c \in ClientIds |-> IF c = Localhost THEN [Free EXCEPT !.max = Some(Num(0))] ELSE Free]

ZeroMaxInit ==
    /\ list = <<>>
    /\ timeout = None
    /\ timers = {}
    /\ calls = [i \in Calls |-> IdleCall]
    /\ spy = 0
    /\ run = [c \in ClientIds |-> 0]
    /\ workload = ZeroMax
    /\ admitted = [c \in ClientIds |-> <<>>]
    /\ created = [c \in ClientIds |-> None]
    /\ lastCall = [c \in ClientIds |-> None]
    /\ alone = [c \in ClientIds |-> [list |-> <<>>, ms |-> None]]
    /\ CorsOptions = None
    /\ NoEnv
    /\ RequestInit
    /\ BodyInit
    /\ NoResponse

ZeroMaxSpec == ZeroMaxInit /\ [][Next]_vars

\* the call in slot i is one of the client whose callers pass max 0, in `next`
ZeroMaxInNext(i) ==
    /\ calls[i].pc = "next"
    /\ ClientOf(calls[i].nextCalls[1]) = Localhost

\* C29: a call with max = 0 is unlimited, not one that admits nothing: it invokes
\* next with the request at once and returns the result of next, and from the
\* call to its return it leaves the list, the handle and the timers untouched,
\* whatever the count of the client.
C29_ZeroMaxUnlimited ==
    [][ \A i \in Calls :
          /\ \A request \in Requests :
                Call(i, request, Num(0)) =>
                    /\ calls'[i].pc = "next" /\ calls'[i].nextCalls = <<request>>
                    /\ list' = list /\ timers' = timers /\ timeout' = timeout /\ spy' = spy
          /\ (ZeroMaxInNext(i) /\ calls'[i].pc # "next") =>
                    /\ SettlesAsNext(i)
                    /\ list' = list /\ timers' = timers /\ timeout' = timeout /\ spy' = spy
          /\ Localhost \notin DOMAIN list'
      ]_vars

\* a call with max 0 is in `next` while its client has no entry, the other client
\* has been counted twice and the timer armed for that client is pending
C29_Witness ==
    \E i \in Calls :
        /\ ZeroMaxInNext(i)
        /\ workload[Localhost].max = Some(Num(0))
        /\ Localhost \notin DOMAIN list
        /\ \E d \in DOMAIN list :
              /\ list[d] >= 2
              /\ \E t \in timers : timers = {t} /\ t.requestIp = d /\ timeout = Some(t.id)

====
